---------------------------- MODULE Spec2Model ----------------------------
(***************************************************************************)
(* A model of the gcp-dyndns service: the DynDNS2 update endpoint          *)
(* (src/main.py) and its Config / DNSUpdater collaborators                 *)
(* (src/dyndns_service.py).                                                *)
(*                                                                         *)
(* The program's strings (hostnames, addresses, credentials, environment    *)
(* values) are sequences of one-character strings.                         *)
(***************************************************************************)
EXTENDS Integers, Sequences, FiniteSets, TLC

VARIABLES
    zone,       \* the remote zone: addresses of the A record sets of the managed name
    pc,         \* per invocation: "idle" | "list" | "commit" | "done"
    req,        \* per invocation: the request being handled
    resp,       \* per invocation: the response returned (NoResp while none)
    old,        \* per invocation: record_old of the running update_record attempt
    attempts,   \* per invocation: re-attempts the Retry wrapper has made
    now,        \* per invocation: seconds slept by the Retry wrapper so far
    delay,      \* per invocation: the sleep generator's current upper delay
    outcome,    \* per invocation: "none" | "unchanged" | "updated" | "failed"
    err,        \* per invocation: the exception that ended update_record ("none" if none)
    last,       \* history: the address of the latest update_record call that returned
                \* True (a committed change-set is the last step of such a call)
    faultCap,   \* environment: transient errors the zone API gives the invocations
                \* that have not ended, at most
    pool,       \* environment: the client population, "any" | "updates"
    fqIn,       \* is_valid_fqdn: the argument
    fqOut,      \* is_valid_fqdn: the result, "True" | "False" ("unset" before the call)
    env,        \* Config.from_env: the process environment
    loaded      \* Config.from_env: the result (NotLoaded before the call)

vars == <<zone, pc, req, resp, old, attempts, now, delay, outcome, err, last,
          faultCap, pool, fqIn, fqOut, env, loaded>>

pureVars == <<fqIn, fqOut, env, loaded>>

handlerVars == <<zone, pc, req, resp, old, attempts, now, delay, outcome, err, last,
                 faultCap, pool>>

----------------------------------------------------------------------------
(* Bounds of the model *)

\* Longest string of the exhaustive is_valid_fqdn input family.
MaxLen == 5

\* Transient errors the zone API may give an update_record call (sequential runs).
MaxFaults == 7

\* Transient errors the zone API may give the update_record calls under way
\* (concurrent runs).
MaxFaultsConc == 1

\* Concurrent handler invocations in the concurrent specification.
NumProcs == 2

----------------------------------------------------------------------------
(* Strings *)

\* The absent value of a string (request.args.get, os.environ.get -> None): no
\* string of the model has an element of more than one character.
None == <<"None">>

Rep(c, n) == [i \in 1..n |-> c]

Lower == [c \in {"A", "B"} |-> IF c = "A" THEN "a" ELSE "b"]

\* str.lower()
lower(s) == [i \in 1..Len(s) |-> IF s[i] \in DOMAIN Lower THEN Lower[s[i]] ELSE s[i]]

Letters == {"a", "b", "A", "B"}
Digits == {"0", "1", "2", "3", "4", "5", "6", "7", "8", "9"}

\* The pieces of s between the occurrences of sep.
RECURSIVE Split(_, _)
Split(s, sep) ==
    IF \A i \in 1..Len(s) : s[i] # sep
    THEN <<s>>
    ELSE LET k == CHOOSE i \in 1..Len(s) :
                      s[i] = sep /\ \A j \in 1..(i - 1) : s[j] # sep
         IN  <<SubSeq(s, 1, k - 1)>> \o Split(SubSeq(s, k + 1, Len(s)), sep)

----------------------------------------------------------------------------
(* is_valid_fqdn, src/main.py *)

FqdnMaxLen == 253
LabelMaxLen == 63
TldMinLen == 2

\* [A-Za-z0-9-]{1,63}
LabelChars(l) ==
    /\ Len(l) >= 1
    /\ Len(l) <= LabelMaxLen
    /\ \A i \in 1..Len(l) : l[i] \in Letters \cup Digits \cup {"-"}

\* (?!-)[A-Za-z0-9-]{1,63}(?<!-) : the lookarounds guard the first label only
FirstLabel(l) == LabelChars(l) /\ l[1] # "-" /\ l[Len(l)] # "-"

\* [A-Za-z]{2,}
Tld(l) == Len(l) >= TldMinLen /\ \A i \in 1..Len(l) : l[i] \in Letters

\* "$" matches at the end of the string and before a newline that ends it
BeforeDollar(s) ==
    IF Len(s) >= 1 /\ s[Len(s)] = "\n" THEN SubSeq(s, 1, Len(s) - 1) ELSE s

\* hostname_regex.match(hostname): no class of the pattern holds ".", so a match
\* is a split at the dots into a first label, inner labels and the final label
RegexMatch(s) ==
    LET parts == Split(BeforeDollar(s), ".")
        n     == Len(parts)
    IN  /\ n >= 2
        /\ FirstLabel(parts[1])
        /\ \A i \in 2..(n - 1) : LabelChars(parts[i])
        /\ Tld(parts[n])

is_valid_fqdn(hostname) ==
    IF Len(hostname) = 0 \/ Len(hostname) > FqdnMaxLen
    THEN FALSE
    ELSE RegexMatch(hostname)

----------------------------------------------------------------------------
(* ipaddress.ip_address as update_dns uses it, src/main.py *)

DigitVal ==
    [d \in Digits |->
        CASE d = "0" -> 0 [] d = "1" -> 1 [] d = "2" -> 2 [] d = "3" -> 3
          [] d = "4" -> 4 [] d = "5" -> 5 [] d = "6" -> 6 [] d = "7" -> 7
          [] d = "8" -> 8 [] d = "9" -> 9]

RECURSIVE DecVal(_)
DecVal(s) ==
    IF Len(s) = 0 THEN 0
    ELSE 10 * DecVal(SubSeq(s, 1, Len(s) - 1)) + DigitVal[s[Len(s)]]

AllIn(s, chars) == \A i \in 1..Len(s) : s[i] \in chars

\* IPv4Address._parse_octet: decimal digits, at most 3, no leading zero, <= 255
ParseOctet(o) ==
    /\ Len(o) >= 1
    /\ AllIn(o, Digits)
    /\ Len(o) <= 3
    /\ (Len(o) > 1 => o[1] # "0")
    /\ DecVal(o) <= 255

IsIPv4(s) ==
    LET octets == Split(s, ".")
    IN  /\ Len(s) >= 1
        /\ Len(octets) = 4
        /\ \A i \in 1..4 : ParseOctet(octets[i])

HexDigits == Digits \cup {"a", "b", "A", "B"}

\* IPv6Address._parse_hextet
ParseHextet(h) == Len(h) >= 1 /\ Len(h) <= 4 /\ AllIn(h, HexDigits)

\* IPv6Address._ip_int_from_string (no scope id)
IsIPv6(s) ==
    LET parts0 == Split(s, ":")
        tail   == parts0[Len(parts0)]
        v4tail == \E i \in 1..Len(tail) : tail[i] = "."
        parts  == IF v4tail
                  THEN SubSeq(parts0, 1, Len(parts0) - 1) \o << <<"0">>, <<"0">> >>
                  ELSE parts0
        n      == Len(parts)
        skips  == {i \in 2..(n - 1) : parts[i] = <<>>}
    IN  /\ Len(s) >= 1
        /\ Len(parts0) >= 3
        /\ (v4tail => IsIPv4(tail))
        /\ n <= 9
        /\ Cardinality(skips) <= 1
        /\ IF skips # {}
           THEN LET k  == CHOOSE i \in skips : TRUE
                    hi == IF parts[1] = <<>> THEN k - 2 ELSE k - 1
                    lo == IF parts[n] = <<>> THEN n - k - 1 ELSE n - k
                IN  /\ (parts[1] = <<>> => hi = 0)
                    /\ (parts[n] = <<>> => lo = 0)
                    /\ 8 - (hi + lo) >= 1
                    /\ \A i \in 1..hi : ParseHextet(parts[i])
                    /\ \A i \in (n - lo + 1)..n : ParseHextet(parts[i])
           ELSE /\ n = 8
                /\ \A i \in 1..n : ParseHextet(parts[i])

\* ipaddress.ip_address(myip): the class of the result, or the error raised
ip_address(myip) ==
    IF myip = None THEN "ValueError"
    ELSE IF IsIPv4(myip) THEN "IPv4Address"
    ELSE IF IsIPv6(myip) THEN "IPv6Address"
    ELSE "ValueError"

----------------------------------------------------------------------------
(* werkzeug password hashes, src/password_hash.py and src/main.py *)

RECURSIVE JoinFrom(_, _, _)
JoinFrom(parts, i, sep) ==
    IF i > Len(parts) THEN <<>>
    ELSE IF i = Len(parts) THEN parts[i]
    ELSE parts[i] \o <<sep>> \o JoinFrom(parts, i + 1, sep)

\* The one hash method the model knows ("pbkdf2:sha256").
Pbkdf2 == <<"m">>

\* _hash_internal: the digest of a password under a salt, a symbolic one-way value
Digest(salt, password) == <<"#">> \o salt \o <<"#">> \o password

\* password_hash.py: generate_password_hash(password) with the salt drawn
generate_password_hash(password, salt) ==
    Pbkdf2 \o <<"$">> \o salt \o <<"$">> \o Digest(salt, password)

\* werkzeug check_password_hash: "raise" stands for the ValueError of an unknown method
check_password_hash(pwhash, password) ==
    LET parts == Split(pwhash, "$")
    IN  IF Len(parts) < 3 THEN "False"
        ELSE IF parts[1] # Pbkdf2 THEN "raise"
        ELSE IF Digest(parts[2], password) = JoinFrom(parts, 3, "$")
             THEN "True" ELSE "False"

----------------------------------------------------------------------------
(* Config.from_env, src/dyndns_service.py *)

RequiredVars == <<"DYNDNS_USERNAME", "DYNDNS_PASSWORD", "DNS_HOSTNAME", "DNS_ZONE">>
NumericVars == {"DNS_TTL", "MAX_RETRIES", "RETRY_DELAY"}
ProjectVars == {"PROJECT_ID", "GCP_PROJECT"}
EnvVars ==
    {RequiredVars[i] : i \in 1..Len(RequiredVars)} \cup NumericVars \cup ProjectVars

DefaultTtl == 300
DefaultMaxRetries == 3
DefaultRetryDelay == 1

\* `not value`: the variable is unset or set to the empty string
Falsy(v) == v = None \/ v = <<>>

\* int(s) of a string: an optional sign and decimal digits
IntParses(s) ==
    LET body == IF Len(s) >= 1 /\ s[1] \in {"+", "-"} THEN SubSeq(s, 2, Len(s)) ELSE s
    IN  Len(body) >= 1 /\ AllIn(body, Digits)

IntOf(s) ==
    IF s[1] = "-" THEN 0 - DecVal(SubSeq(s, 2, Len(s)))
    ELSE IF s[1] = "+" THEN DecVal(SubSeq(s, 2, Len(s)))
    ELSE DecVal(s)

\* int(os.getenv(name, default))
GetInt(e, name, default) == IF e[name] = None THEN default ELSE IntOf(e[name])

NoConfig == [username |-> None, password_hash |-> None, hostname |-> None,
             zone |-> None, project_id |-> None, ttl |-> 0, max_retries |-> 0,
             retry_delay |-> 0]

\* The error raised: its kind and the environment variables its message names.
Raise(kind, names) == [ok |-> FALSE, error |-> kind, names |-> names, cfg |-> NoConfig]

from_env(e) ==
    LET missing_vars == {RequiredVars[i] : i \in {j \in 1..Len(RequiredVars) :
                                                      Falsy(e[RequiredVars[j]])}}
        project_id == IF ~Falsy(e["PROJECT_ID"]) THEN e["PROJECT_ID"]
                      ELSE e["GCP_PROJECT"]
    IN  IF missing_vars # {}
        THEN Raise("Missing required environment variables", missing_vars)
        ELSE IF \E v \in NumericVars : e[v] # None /\ ~IntParses(e[v])
        THEN Raise("invalid literal for int()", {})
        ELSE IF Falsy(project_id)
        THEN Raise("PROJECT_ID or GCP_PROJECT needs to be specified", ProjectVars)
        ELSE [ok |-> TRUE, error |-> "none", names |-> {},
              cfg |-> [username      |-> e["DYNDNS_USERNAME"],
                       password_hash |-> e["DYNDNS_PASSWORD"],
                       hostname      |-> e["DNS_HOSTNAME"],
                       zone          |-> e["DNS_ZONE"],
                       project_id    |-> project_id,
                       ttl           |-> GetInt(e, "DNS_TTL", DefaultTtl),
                       max_retries   |-> GetInt(e, "MAX_RETRIES", DefaultMaxRetries),
                       retry_delay   |-> GetInt(e, "RETRY_DELAY", DefaultRetryDelay)]]

\* Before from_env has run.
NotLoaded == [ok |-> FALSE, error |-> "unset", names |-> {}, cfg |-> NoConfig]

\* The deployment the request handler is checked under.
GoodPassword == <<"p">>
ServiceEnv ==
    [v \in EnvVars |->
        CASE v = "DYNDNS_USERNAME" -> <<"u">>
          [] v = "DYNDNS_PASSWORD" -> generate_password_hash(GoodPassword, <<"s">>)
          [] v = "DNS_HOSTNAME"    -> <<"a", "b", ".", "b", "a">>
          [] v = "DNS_ZONE"        -> <<"z">>
          [] v = "PROJECT_ID"      -> <<"p", "r">>
          [] OTHER                 -> None]

\* main.py: config = Config.from_env()
config == from_env(ServiceEnv).cfg

----------------------------------------------------------------------------
(* DynDNSResponse, src/dyndns_service.py *)

DynDNSResponse ==
    [GOOD           |-> [code |-> "good",    status_code |-> 200],
     NOHOST         |-> [code |-> "nohost",  status_code |-> 400],
     NOTFQDN        |-> [code |-> "notfqdn", status_code |-> 400],
     BADIP          |-> [code |-> "badip",   status_code |-> 400],
     DNSERR         |-> [code |-> "dnserr",  status_code |-> 500],
     BADAUTH        |-> [code |-> "badauth", status_code |-> 401],
     INTERNAL_ERROR |-> [code |-> "911",     status_code |-> 500]]

\* DynDNSResponse.to_response(headers=...): body status, HTTP status, header names
to_response(name, headers) ==
    [status  |-> DynDNSResponse[name].code,
     http    |-> DynDNSResponse[name].status_code,
     headers |-> {"Access-Control-Allow-Origin"} \cup headers]

cors_headers ==
    {"Access-Control-Allow-Origin", "Access-Control-Allow-Methods",
     "Access-Control-Allow-Headers", "Access-Control-Max-Age"}

\* return "", 204, cors_headers
PreflightResponse == [status |-> "", http |-> 204, headers |-> cors_headers]

NoResp == [status |-> "none", http |-> 0, headers |-> {}]

----------------------------------------------------------------------------
(* Authentication and validation, src/main.py *)

\* verify_password without the comparison of the user name.
verify_password_any_user(username, password) ==
    check_password_hash(config.password_hash, password) = "True"

\* verify_password: a wrong user name, a failed check or a raised error are False
verify_password(username, password) ==
    IF username # config.username
    THEN FALSE
    ELSE check_password_hash(config.password_hash, password) = "True"

\* auth_error
auth_error == to_response("BADAUTH", {"WWW-Authenticate"})

\* @auth.login_required: OPTIONS requests pass without credentials
login_required(r) == r.method = "OPTIONS" \/ verify_password(r.user, r.password)

\* validate_hostname comparing the strings as given.
validate_hostname_exact(hostname) == hostname = config.hostname

\* DNSUpdater.validate_hostname
validate_hostname(hostname) == lower(hostname) = lower(config.hostname)

\* update_dns without the isinstance(ip_obj, IPv4Address) check.
Precheck_any_version(r) ==
    IF ~login_required(r) THEN auth_error
    ELSE IF r.method = "OPTIONS" THEN PreflightResponse
    ELSE IF Falsy(r.hostname) THEN to_response("NOHOST", {})
    ELSE IF ~is_valid_fqdn(r.hostname) THEN to_response("NOTFQDN", {})
    ELSE IF ~validate_hostname(r.hostname) THEN to_response("NOHOST", {})
    ELSE IF ip_address(r.myip) = "ValueError" THEN to_response("BADIP", {})
    ELSE NoResp

\* update_dns up to the call of update_record: the response returned before it,
\* or NoResp when the request goes on to update_record(myip)
Precheck(r) ==
    IF ~login_required(r) THEN auth_error
    ELSE IF r.method = "OPTIONS" THEN PreflightResponse
    ELSE IF Falsy(r.hostname) THEN to_response("NOHOST", {})
    ELSE IF ~is_valid_fqdn(r.hostname) THEN to_response("NOTFQDN", {})
    ELSE IF ~validate_hostname(r.hostname) THEN to_response("NOHOST", {})
    ELSE IF ip_address(r.myip) # "IPv4Address" THEN to_response("BADIP", {})
    ELSE NoResp

\* update_dns after update_record: True -> GOOD, a falsy result -> DNSERR,
\* an exception -> INTERNAL_ERROR
HandlerResult(result) ==
    IF result = "raise" THEN to_response("INTERNAL_ERROR", {})
    ELSE IF result = "True" THEN to_response("GOOD", {})
    ELSE to_response("DNSERR", {})

----------------------------------------------------------------------------
(* The Retry wrapper of update_record, src/dyndns_service.py *)

RetryInitial == 1
RetryMaximum == 60
RetryMultiplier == 2
\* retry.Retry's default timeout: the decorator passes none
RetryDeadline == 120

\* The errors the zone API raises in the model.
ServerErrors == {"ServiceUnavailable", "InternalServerError"}
ClientErrors == {"Forbidden", "Conflict"}
ApiErrors == ServerErrors \cup ClientErrors

\* A predicate that retries RetryError alone.
RetryPredicate_retry_error_only(e) == e = "RetryError"

\* predicate=retry.if_exception_type(RetryError, ServerError, ServiceUnavailable,
\*                                   InternalServerError)
RetryPredicate(e) == e = "RetryError" \/ e \in ServerErrors

\* The sleep generator draws uniformly from [0, delay]: the two ends stand for it.
SleepChoices(d) == {0, d}

\* The generator's next upper delay.
NextDelay(d) == IF d * RetryMultiplier > RetryMaximum THEN RetryMaximum
                ELSE d * RetryMultiplier

\* The wrapper gives up when the next sleep would end after the deadline.
DeadlineExceeded(t, sleep) == t + sleep > RetryDeadline

----------------------------------------------------------------------------
(* DNSUpdater.update_record and the zone, src/dyndns_service.py *)

\* A comparison that never finds the address in place.
SameAddress_never(record_old, ip) == FALSE

\* record_old and record_old.rrdatas[0] == ip_address
SameAddress(record_old, ip) == record_old # None /\ record_old = ip

\* A change-set without the add_record_set of the new record.
ChangeSet_delete_only(record_old, ip) == [del |-> record_old, add |-> None]

\* The change-set update_record stages: the old record's deletion, if one was
\* found, and the new record's addition.
ChangeSet(record_old, ip) == [del |-> record_old, add |-> ip]

\* The provider rejects a change-set whose deletion does not match a current
\* record or whose addition meets a record of the same name and type.
ProviderAccepts(z, ch) ==
    /\ ch.del # None => ch.del \in z
    /\ ch.add # None => z \ {ch.del} = {}

\* changes.create(): the deletions and additions applied as one.
ProviderApply(z, ch) == (z \ {ch.del}) \cup (IF ch.add = None THEN {} ELSE {ch.add})

\* _get_existing_record: the first A record set of the name, or None
get_existing_record(z) == IF z = {} THEN {None} ELSE z

----------------------------------------------------------------------------
(* The requests of the model *)

IpA == <<"1", ".", "2", ".", "3", ".", "4">>
IpB == <<"1", ".", "2", ".", "3", ".", "5">>

Users == {<<"u">>, <<"x">>, <<>>}
Passwords == {GoodPassword, <<"q">>}
Hostnames ==
    {None, <<>>,
     <<"a", "b", ".", "b", "a">>,
     <<"A", "b", ".", "B", "A">>,
     <<"b", "b", ".", "b", "a">>,
     <<"a", " ", "b">>}
MyIps ==
    {None, IpA, IpB,
     <<":", ":", "1">>,
     <<"2", "5", "6", ".", "1", ".", "1", ".", "1">>,
     <<"1", ".", "2", ".", "3">>}

Requests ==
    [method : {"GET", "OPTIONS"}, user : Users, password : Passwords,
     hostname : Hostnames, myip : MyIps]

\* Requests of the configured user for the configured hostname with an IPv4 myip.
UpdateRequests ==
    [method : {"GET"}, user : {<<"u">>}, password : {GoodPassword},
     hostname : {<<"a", "b", ".", "b", "a">>}, myip : {IpA, IpB}]

\* The requests clients send, by the name of the client population.
Pool(name) == IF name = "updates" THEN UpdateRequests ELSE Requests

NoReq == [method |-> "none", user |-> None, password |-> None,
          hostname |-> None, myip |-> None]

Procs == DOMAIN pc

\* The transient errors the zone API has given the invocations of S that have
\* not ended.
RECURSIVE FaultsGiven(_)
FaultsGiven(S) ==
    IF S = {} THEN 0
    ELSE LET p == CHOOSE q \in S : TRUE
         IN  attempts[p] + FaultsGiven(S \ {p})

----------------------------------------------------------------------------
(* The request handler update_dns, one action per step between remote calls *)

\* update_record returns or raises: update_dns maps the result to its response
Return(p, result, out, e) ==
    /\ pc' = [pc EXCEPT ![p] = "done"]
    /\ resp' = [resp EXCEPT ![p] = HandlerResult(result)]
    /\ outcome' = [outcome EXCEPT ![p] = out]
    /\ err' = [err EXCEPT ![p] = e]
    /\ now' = [now EXCEPT ![p] = 0]
    /\ delay' = [delay EXCEPT ![p] = RetryInitial]

\* A request arrives: authentication, the preflight answer, hostname and myip
\* validation; a request that passes them all calls update_record(myip).
Receive(p) ==
    /\ pc[p] = "idle"
    /\ \E r \in Pool(pool) :
        LET early == Precheck(r)
        IN  /\ req' = [req EXCEPT ![p] = r]
            /\ IF early # NoResp
               THEN /\ pc' = [pc EXCEPT ![p] = "done"]
                    /\ resp' = [resp EXCEPT ![p] = early]
               ELSE /\ pc' = [pc EXCEPT ![p] = "list"]
                    /\ UNCHANGED resp
    /\ UNCHANGED <<zone, old, attempts, now, delay, outcome, err, last, faultCap, pool>>
    /\ UNCHANGED pureVars

\* _get_existing_record answers and the record holds the address already:
\* update_record returns True without a change-set.
ListSame(p) ==
    /\ pc[p] = "list"
    /\ \E rec \in get_existing_record(zone) :
        /\ SameAddress(rec, req[p].myip)
        /\ old' = [old EXCEPT ![p] = rec]
    /\ last' = req[p].myip
    /\ Return(p, "True", "unchanged", "none")
    /\ UNCHANGED <<zone, req, attempts, faultCap, pool>>
    /\ UNCHANGED pureVars

\* _get_existing_record answers with no record or another address: the
\* change-set is staged.
ListOther(p) ==
    /\ pc[p] = "list"
    /\ \E rec \in get_existing_record(zone) :
        /\ ~SameAddress(rec, req[p].myip)
        /\ old' = [old EXCEPT ![p] = rec]
    /\ pc' = [pc EXCEPT ![p] = "commit"]
    /\ UNCHANGED <<zone, req, resp, attempts, now, delay, outcome, err, last,
                   faultCap, pool>>
    /\ UNCHANGED pureVars

\* changes.create() is accepted: the zone changes and update_record returns True.
CommitOk(p) ==
    /\ pc[p] = "commit"
    /\ ProviderAccepts(zone, ChangeSet(old[p], req[p].myip))
    /\ zone' = ProviderApply(zone, ChangeSet(old[p], req[p].myip))
    /\ last' = req[p].myip
    /\ UNCHANGED old
    /\ Return(p, "True", "updated", "none")
    /\ UNCHANGED <<req, attempts, faultCap, pool>>
    /\ UNCHANGED pureVars

\* A remote call raises an error the Retry predicate does not accept, among them
\* the provider's rejection of the change-set: update_record raises it on.
ApiFatal(p, e) ==
    /\ pc[p] \in {"list", "commit"}
    /\ ~RetryPredicate(e)
    /\ e = "Conflict" =>
           pc[p] = "commit" /\ ~ProviderAccepts(zone, ChangeSet(old[p], req[p].myip))
    /\ Return(p, "raise", "failed", e)
    /\ old' = [old EXCEPT ![p] = None]
    /\ UNCHANGED <<zone, req, attempts, last, faultCap, pool>>
    /\ UNCHANGED pureVars

\* A remote call raises a transient error: the wrapper draws the next sleep and
\* either sleeps and calls update_record again, or, the sleep ending after the
\* deadline, raises RetryError.
ApiTransient(p, e, sleep) ==
    /\ pc[p] \in {"list", "commit"}
    /\ FaultsGiven(Procs) < faultCap
    /\ RetryPredicate(e)
    /\ IF DeadlineExceeded(now[p], sleep)
       THEN /\ Return(p, "raise", "failed", "RetryError")
            /\ old' = [old EXCEPT ![p] = None]
            /\ UNCHANGED attempts
       ELSE /\ pc' = [pc EXCEPT ![p] = "list"]
            /\ attempts' = [attempts EXCEPT ![p] = attempts[p] + 1]
            /\ now' = [now EXCEPT ![p] = now[p] + sleep]
            /\ delay' = [delay EXCEPT ![p] = NextDelay(delay[p])]
            /\ old' = [old EXCEPT ![p] = None]
            /\ UNCHANGED <<resp, outcome, err>>
    /\ UNCHANGED <<zone, req, last, faultCap, pool>>
    /\ UNCHANGED pureVars

\* The response is sent; the invocation ends and its state is dropped.
Finish(p) ==
    /\ pc[p] = "done"
    /\ pc' = [pc EXCEPT ![p] = "idle"]
    /\ req' = [req EXCEPT ![p] = NoReq]
    /\ resp' = [resp EXCEPT ![p] = NoResp]
    /\ attempts' = [attempts EXCEPT ![p] = 0]
    /\ outcome' = [outcome EXCEPT ![p] = "none"]
    /\ err' = [err EXCEPT ![p] = "none"]
    /\ old' = [old EXCEPT ![p] = None]
    /\ UNCHANGED <<zone, now, delay, last, faultCap, pool>>
    /\ UNCHANGED pureVars

Next ==
    \/ \E p \in Procs : Receive(p)
    \/ \E p \in Procs : ListSame(p)
    \/ \E p \in Procs : ListOther(p)
    \/ \E p \in Procs : CommitOk(p)
    \/ \E p \in Procs, e \in ApiErrors : ApiFatal(p, e)
    \/ \E p \in Procs, e \in ApiErrors :
           \E sleep \in SleepChoices(delay[p]) : ApiTransient(p, e, sleep)
    \/ \E p \in Procs : Finish(p)

\* The zone at start: empty, or one A record.
Zones == {{}, {IpA}, {IpB}}

InitHandler(procs, cap, requests) ==
    /\ zone \in Zones
    /\ pc = [p \in procs |-> "idle"]
    /\ req = [p \in procs |-> NoReq]
    /\ resp = [p \in procs |-> NoResp]
    /\ old = [p \in procs |-> None]
    /\ attempts = [p \in procs |-> 0]
    /\ now = [p \in procs |-> 0]
    /\ delay = [p \in procs |-> RetryInitial]
    /\ outcome = [p \in procs |-> "none"]
    /\ err = [p \in procs |-> "none"]
    /\ last = None
    /\ faultCap = cap
    /\ pool = requests

InitPure ==
    /\ fqIn = <<>>
    /\ fqOut = "unset"
    /\ env = ServiceEnv
    /\ loaded = NotLoaded

\* One invocation at a time, any request.
Init == InitHandler({1}, MaxFaults, "any") /\ InitPure

Spec == Init /\ [][Next]_vars

\* Concurrent invocations of requests that reach update_record.
InitConc == InitHandler(1..NumProcs, MaxFaultsConc, "updates") /\ InitPure

SpecConc == InitConc /\ [][Next]_vars

----------------------------------------------------------------------------
(* is_valid_fqdn applied to bounded inputs *)

FqdnChars == {"a", "1", "-", ".", "\n"}

\* Every string over FqdnChars of at most MaxLen characters.
ShortInputs == UNION {[1..n -> FqdnChars] : n \in 0..MaxLen}

\* Label lengths around the limits of the pattern.
LabelLens == {1, 2, 62, 63, 64}

\* Two labels of letters, of every pair of lengths.
TwoLabelInputs == {Rep("a", n) \o <<".">> \o Rep("b", m) : n, m \in LabelLens}

\* Four labels, 252 to 254 characters in all.
FourLabelInputs ==
    {Rep("a", 63) \o <<".">> \o Rep("a", 63) \o <<".">> \o Rep("a", 63) \o <<".">>
         \o Rep("b", n) : n \in {60, 61, 62}}

\* Three labels, with hyphens in the inner one.
InnerLabelInputs ==
    {<<"a", ".">> \o m \o <<".", "a", "b">> :
         m \in UNION {[1..n -> {"a", "-"}] : n \in 1..2}}

FqdnInputs == ShortInputs \cup TwoLabelInputs \cup FourLabelInputs \cup InnerLabelInputs

InitHandlerOff ==
    /\ zone = {}
    /\ pc = <<>>
    /\ req = <<>>
    /\ resp = <<>>
    /\ old = <<>>
    /\ attempts = <<>>
    /\ now = <<>>
    /\ delay = <<>>
    /\ outcome = <<>>
    /\ err = <<>>
    /\ last = None
    /\ faultCap = 0
    /\ pool = "any"

InitFqdn ==
    /\ InitHandlerOff
    /\ fqIn \in FqdnInputs
    /\ fqOut = "unset"
    /\ env = ServiceEnv
    /\ loaded = NotLoaded

\* is_valid_fqdn(fqIn) is called.
CallFqdn ==
    /\ fqOut = "unset"
    /\ fqOut' = IF is_valid_fqdn(fqIn) THEN "True" ELSE "False"
    /\ UNCHANGED <<fqIn, env, loaded>>
    /\ UNCHANGED handlerVars

NextFqdn == CallFqdn

SpecFqdn == InitFqdn /\ [][NextFqdn]_vars

----------------------------------------------------------------------------
(* Config.from_env applied to bounded environments *)

StringChoices == {None, <<>>, <<"v">>}

Environments ==
    [DYNDNS_USERNAME : StringChoices,
     DYNDNS_PASSWORD : StringChoices,
     DNS_HOSTNAME    : {None, <<>>, <<"a", "b", ".", "b", "a">>},
     DNS_ZONE        : StringChoices,
     DNS_TTL         : {None, <<"6", "0">>, <<"x">>},
     MAX_RETRIES     : {None, <<"5">>},
     RETRY_DELAY     : {None},
     PROJECT_ID      : {None, <<>>, <<"p", "r">>},
     GCP_PROJECT     : {None, <<>>, <<"p", "r">>}]

InitConfig ==
    /\ InitHandlerOff
    /\ fqIn = <<>>
    /\ fqOut = "unset"
    /\ env \in Environments
    /\ loaded = NotLoaded

\* main.py at import: config = Config.from_env()
LoadConfig ==
    /\ loaded = NotLoaded
    /\ loaded' = from_env(env)
    /\ UNCHANGED <<fqIn, fqOut, env>>
    /\ UNCHANGED handlerVars

NextConfig == LoadConfig

SpecConfig == InitConfig /\ [][NextConfig]_vars

----------------------------------------------------------------------------
(* C7: is_valid_fqdn against the grammar of the specification *)

\* The grammar as the specification words it: at most 253 characters, every
\* dot-separated label 1 to 63 characters of [A-Za-z0-9-] that neither starts
\* nor ends with "-", the last label at least 2 letters.
GrammarLabel(l) ==
    /\ Len(l) >= 1
    /\ Len(l) <= 63
    /\ \A i \in 1..Len(l) : l[i] \in Letters \cup Digits \cup {"-"}
    /\ l[1] # "-"
    /\ l[Len(l)] # "-"

GrammarFqdn(s) ==
    LET labels == Split(s, ".")
        tld    == labels[Len(labels)]
    IN  /\ Len(s) <= 253
        /\ \A i \in 1..Len(labels) : GrammarLabel(labels[i])
        /\ Len(tld) >= 2
        /\ \A i \in 1..Len(tld) : tld[i] \in Letters

\* C7: for every string s, is_valid_fqdn(s) is true if and only if s has at most
\* 253 characters, every dot-separated label of s is 1 to 63 characters of
\* [A-Za-z0-9-] that neither starts nor ends with "-", and the last label is at
\* least 2 alphabetic characters.
C7_FqdnIffGrammar ==
    fqOut # "unset" => (fqOut = "True" <=> GrammarFqdn(fqIn))

----------------------------------------------------------------------------
(* C8: Config.from_env names every missing required value *)

\* The required values that are absent: the four required variables, and the
\* project identifier when neither of its two names is set.
MissingRequired(e) ==
    {RequiredVars[i] : i \in {j \in 1..Len(RequiredVars) : Falsy(e[RequiredVars[j]])}}
        \cup (IF \A v \in ProjectVars : Falsy(e[v]) THEN {"PROJECT_ID"} ELSE {})

\* C8: when any required value is absent, loading fails with an error that names
\* every missing required value, and a Config is returned only when all required
\* values are non-empty.
C8_ErrorNamesEveryMissing ==
    loaded # NotLoaded =>
        /\ loaded.ok => MissingRequired(env) = {}
        /\ MissingRequired(env) # {} =>
               ~loaded.ok /\ MissingRequired(env) \subseteq loaded.names

----------------------------------------------------------------------------
(* What the requests of the model are, stated apart from the handler's code *)

\* The configured user name with the password the stored hash was generated from.
CredsOk(r) == r.user = ServiceEnv["DYNDNS_USERNAME"] /\ r.password = GoodPassword

\* The hostname is the configured one up to letter case.
HostAuthorized(r) ==
    r.hostname # None /\ lower(r.hostname) = lower(ServiceEnv["DNS_HOSTNAME"])

\* The myip values of the model that are IPv4 literals.
ValidIps == {IpA, IpB}

\* The invocation is inside update_record, or has been.
InUpdate(p) == pc[p] \in {"list", "commit"}
CalledUpdate(p) == InUpdate(p) \/ outcome[p] # "none"
Answered(p) == pc[p] = "done" /\ req[p].method # "OPTIONS"

----------------------------------------------------------------------------
(* C1: a failed update is answered DNSERR *)

\* C1: for an authenticated request with an authorized hostname and a valid IPv4
\* myip, whenever update_record ends without a committed or skipped change-set,
\* the response is DNSERR (HTTP 500) and never INTERNAL_ERROR.
C1_FailureIsDnsErr ==
    \A p \in Procs :
        pc[p] = "done" /\ outcome[p] = "failed" =>
            resp[p].status = "dnserr" /\ resp[p].http = 500

----------------------------------------------------------------------------
(* C2: the attempts of one update_record call are bounded by max_retries *)

\* C2: one update_record call makes at most Config.max_retries attempts against
\* the zone API, whatever the sequence of transient errors.
C2_AttemptsBoundedByMaxRetries ==
    \A p \in Procs : CalledUpdate(p) => attempts[p] + 1 <= config.max_retries

----------------------------------------------------------------------------
(* C3: idempotence of update_record *)

\* C3: a call of update_record(ip) that lists the zone when the latest
\* successful call was one with the same ip (so no change-set was committed
\* since) stages no change-set, and returns True when the listing answers: the
\* two calls make the one write of the first. A call commits a change-set, and
\* then one only, exactly when the record it listed is missing or holds another
\* address.
C3_Idempotent ==
    /\ [](\A p \in Procs :
              /\ pc[p] = "commit" => old[p] = None \/ old[p] # req[p].myip
              /\ outcome[p] = "updated" => old[p] = None \/ old[p] # req[p].myip
              /\ outcome[p] = "unchanged" => old[p] = req[p].myip)
    /\ [][\A p \in Procs :
              pc[p] = "list" /\ last = req[p].myip =>
                  /\ pc'[p] # "commit"
                  /\ pc'[p] = "done" /\ err'[p] = "none" =>
                         outcome'[p] = "unchanged" /\ resp'[p].status = "good"]_vars

\* A successful call has left the address in the zone, and a call with the
\* same address is listing the zone.
C3_Witness ==
    \E p \in Procs :
        /\ pc[p] = "list"
        /\ attempts[p] = 0
        /\ last = req[p].myip
        /\ zone = {req[p].myip}

----------------------------------------------------------------------------
(* C4: transient failures followed by success *)

----------------------------------------------------------------------------
(* C5: authentication comes first *)

\* C5: every non-preflight request with a wrong user name or a password that
\* does not verify is answered BADAUTH (401) with a WWW-Authenticate header,
\* whatever its hostname and myip; a request with correct credentials is never
\* answered 401 and gets the 400 of its NOHOST or BADIP condition.
C5_BadAuthFirst ==
    \A p \in Procs :
        Answered(p) =>
            IF CredsOk(req[p])
            THEN /\ resp[p].http # 401
                 /\ req[p].hostname \in {None, <<"b", "b", ".", "b", "a">>} =>
                        resp[p].status = "nohost" /\ resp[p].http = 400
                 /\ HostAuthorized(req[p]) /\ req[p].myip \notin ValidIps =>
                        resp[p].status = "badip" /\ resp[p].http = 400
            ELSE /\ resp[p].status = "badauth"
                 /\ resp[p].http = 401
                 /\ "WWW-Authenticate" \in resp[p].headers

\* The configured user with a wrong password, an authorized hostname and a
\* valid address, answered 401.
C5_Witness ==
    \E p \in Procs :
        /\ Answered(p)
        /\ req[p].user = ServiceEnv["DYNDNS_USERNAME"]
        /\ req[p].password # GoodPassword
        /\ HostAuthorized(req[p])
        /\ req[p].myip \in ValidIps
        /\ resp[p].http = 401

----------------------------------------------------------------------------
(* C6: the classification of the hostname parameter *)

\* The response went past the hostname checks.
HostAccepted(p) == resp[p].status \notin {"nohost", "notfqdn", "badauth"}

\* C6 as claimed: absent -> NOHOST; present but not a syntactically valid FQDN
\* -> NOTFQDN; valid but not the configured hostname up to case -> NOHOST; equal
\* up to case -> accepted.
C6_HostnameClassified ==
    \A p \in Procs :
        Answered(p) /\ CredsOk(req[p]) =>
            LET h == req[p].hostname
            IN  IF h = None THEN resp[p].status = "nohost"
                ELSE IF ~is_valid_fqdn(h) THEN resp[p].status = "notfqdn"
                ELSE IF ~HostAuthorized(req[p]) THEN resp[p].status = "nohost"
                ELSE HostAccepted(p)

\* C6 amended: absent or empty -> NOHOST; present, not empty and not a
\* syntactically valid FQDN -> NOTFQDN; valid but not the configured hostname
\* up to case -> NOHOST; equal up to case -> accepted.
C6_HostnameClassifiedEmptyAsAbsent ==
    \A p \in Procs :
        Answered(p) /\ CredsOk(req[p]) =>
            LET h == req[p].hostname
            IN  IF h = None \/ h = <<>>
                THEN resp[p].status = "nohost" /\ resp[p].http = 400
                ELSE IF ~is_valid_fqdn(h)
                THEN resp[p].status = "notfqdn" /\ resp[p].http = 400
                ELSE IF ~HostAuthorized(req[p])
                THEN resp[p].status = "nohost" /\ resp[p].http = 400
                ELSE HostAccepted(p)

\* The configured hostname in another letter case, accepted.
C6_Witness ==
    \E p \in Procs :
        /\ Answered(p)
        /\ CredsOk(req[p])
        /\ req[p].hostname = <<"A", "b", ".", "B", "A">>
        /\ HostAccepted(p)

----------------------------------------------------------------------------
(* C9: the order of the steps of one request *)

\* C9: the zone API is listed or written for a request only after the request
\* passed authentication, its hostname equals the configured one and its myip
\* parsed as an IPv4 address; the checks answer in that order: a BADIP answer
\* is of an authenticated request with the authorized hostname, a NOHOST or
\* NOTFQDN answer of an authenticated request.
C9_StepsInOrder ==
    \A p \in Procs :
        /\ CalledUpdate(p) =>
               /\ req[p].method = "GET"
               /\ CredsOk(req[p])
               /\ HostAuthorized(req[p])
               /\ req[p].myip \in ValidIps
        /\ resp[p].status = "badip" => CredsOk(req[p]) /\ HostAuthorized(req[p])
        /\ resp[p].status \in {"nohost", "notfqdn"} => CredsOk(req[p])
        /\ ~CalledUpdate(p) => old[p] = None /\ attempts[p] = 0

\* A request has listed the zone and is about to write it.
C9_Witness ==
    \E p \in Procs : pc[p] = "commit" /\ req[p].myip \in ValidIps

----------------------------------------------------------------------------
(* C10: concurrent update_record invocations *)

\* C10: under any interleaving of concurrent update_record invocations, the
\* provider rejecting conflicting change-sets, the zone never holds more than
\* one A record of the managed name, and once it holds one it is never left
\* without one.
C10_OneRecordKept ==
    [][/\ Cardinality(zone) <= 1
       /\ Cardinality(zone') <= 1
       /\ zone # {} => zone' # {}]_vars

\* Two invocations listed the same zone; one committed, the other's change-set
\* was rejected.
C10_Witness ==
    \E p, q \in Procs :
        /\ p # q
        /\ pc[p] = "done" /\ outcome[p] = "updated"
        /\ pc[q] = "done" /\ err[q] = "Conflict"

=============================================================================
